---- MODULE Spec2Model ----
(***************************************************************************)
(* Seat validation and order creation of the cinema booking serializers    *)
(* (cinema/serializers.py).                                                *)
(*                                                                         *)
(* A createOrder request is OrderCreateSerializer handling one request     *)
(* body: is_valid() runs TicketCreateSerializer on every item of           *)
(* "tickets" (primary-key lookup of movie_session, then validate), and     *)
(* when no item failed, create() writes the Order row and then one Ticket  *)
(* row per item.  Every query and every insert is one step of its own:     *)
(* create() opens no transaction, so each statement commits by itself and  *)
(* other requests may run between any two of them.                         *)
(***************************************************************************)
EXTENDS Integers, Sequences, FiniteSets, TLC

\* ------------------------------------------------------------------ bounds
NumRequests == 2   \* createOrder requests, possibly concurrent
MaxBatch == 3      \* most items in the "tickets" list of one request
MaxCoord == 3      \* row and seat inputs range over -1..MaxCoord

\* ------------------------------------------------- catalogue (read-only)
\* The halls of the stored movie sessions: session k is shown in hall k.
CinemaHalls ==
    << [rows |-> 1, seats_in_row |-> 2], [rows |-> 2, seats_in_row |-> 1] >>

\* MovieSession.objects.all(): the primary keys of the stored sessions.
MovieSessions == 1..Len(CinemaHalls)

\* attrs["movie_session"].cinema_hall
cinema_hall(movie_session) == CinemaHalls[movie_session]

\* CinemaHall.capacity
capacity(hall) == hall.rows * hall.seats_in_row

\* ------------------------------------------------------------ request input
Requests == 1..NumRequests
Coords == (-1)..MaxCoord
\* movie_session primary keys a request may name; the last one is not stored.
SessionRefs == 1..(Len(CinemaHalls) + 1)
\* One item of the "tickets" list of a request body.
TicketData == [row : Coords, seat : Coords, movie_session : SessionRefs]

\* ------------------------------------------------------- validation results
NoError == "ok"
RowError == "row: Row number out of range."
SeatError == "seat: Seat number out of range."
SeatTaken == "non_field_errors: This seat is already taken."
SessionNotFound == "movie_session: does_not_exist"

VARIABLES
    tickets,         \* Ticket table: sequence of rows, the index is the id
    orders,          \* Order table: set of ids
    pc,              \* per request: where its handler stands
    errors,          \* per request: one validation result per item seen
    validated_data,  \* per request: the validated items ("tickets")
    order,           \* per request: id of the Order it created, 0 if none
    next_ticket      \* per request: index of the next item create() writes

vars == <<tickets, orders, pc, errors, validated_data, order, next_ticket>>

\* ------------------------------------------------------------ Ticket queries
\* Mutant of TicketExists: the filter forgets movie_session.
TicketExistsAnySession(tkts, movie_session, row, seat) ==
    \E i \in DOMAIN tkts : tkts[i].row = row /\ tkts[i].seat = seat

\* Ticket.objects.filter(movie_session=..., row=..., seat=...).exists()
TicketExists(tkts, movie_session, row, seat) ==
    \E i \in DOMAIN tkts :
        /\ tkts[i].movie_session = movie_session
        /\ tkts[i].row = row
        /\ tkts[i].seat = seat

\* obj.tickets: the ids of the tickets of one session
SessionTickets(tkts, movie_session) ==
    {i \in DOMAIN tkts : tkts[i].movie_session = movie_session}

\* Mutant of validate: the seat range is checked before the row range.
validate_seat_first(attrs, tkts) ==
    IF ~(/\ 1 <= attrs.seat
         /\ attrs.seat <= cinema_hall(attrs.movie_session).seats_in_row)
    THEN SeatError
    ELSE IF ~(1 <= attrs.row /\ attrs.row <= cinema_hall(attrs.movie_session).rows)
    THEN RowError
    ELSE IF TicketExists(tkts, attrs.movie_session, attrs.row, attrs.seat)
    THEN SeatTaken
    ELSE NoError

\* Mutant of validate: the seat range starts at 0 instead of 1.
validate_seat_from_zero(attrs, tkts) ==
    IF ~(1 <= attrs.row /\ attrs.row <= cinema_hall(attrs.movie_session).rows)
    THEN RowError
    ELSE IF ~(/\ 0 <= attrs.seat
              /\ attrs.seat <= cinema_hall(attrs.movie_session).seats_in_row)
    THEN SeatError
    ELSE IF TicketExists(tkts, attrs.movie_session, attrs.row, attrs.seat)
    THEN SeatTaken
    ELSE NoError

\* Mutant of validate: the row is compared with seats_in_row.
validate_row_against_seats(attrs, tkts) ==
    IF ~(/\ 1 <= attrs.row
         /\ attrs.row <= cinema_hall(attrs.movie_session).seats_in_row)
    THEN RowError
    ELSE IF ~(/\ 1 <= attrs.seat
              /\ attrs.seat <= cinema_hall(attrs.movie_session).seats_in_row)
    THEN SeatError
    ELSE IF TicketExists(tkts, attrs.movie_session, attrs.row, attrs.seat)
    THEN SeatTaken
    ELSE NoError

\* TicketCreateSerializer.validate
validate(attrs, tkts) ==
    IF ~(1 <= attrs.row /\ attrs.row <= cinema_hall(attrs.movie_session).rows)
    THEN RowError
    ELSE IF ~(/\ 1 <= attrs.seat
              /\ attrs.seat <= cinema_hall(attrs.movie_session).seats_in_row)
    THEN SeatError
    ELSE IF TicketExists(tkts, attrs.movie_session, attrs.row, attrs.seat)
    THEN SeatTaken
    ELSE NoError

\* PrimaryKeyRelatedField(queryset=MovieSession.objects.all()), then validate:
\* an item whose movie_session is not stored never reaches validate.
run_child_validation(data, tkts) ==
    IF data.movie_session \notin MovieSessions
    THEN SessionNotFound
    ELSE validate(data, tkts)

\* MovieSessionListSerializer.get_tickets_available
get_tickets_available(movie_session) ==
    capacity(cinema_hall(movie_session))
        - Cardinality(SessionTickets(tickets, movie_session))

\* MovieSessionDetailSerializer.get_taken_places
get_taken_places(movie_session) ==
    {[row |-> tickets[i].row, seat |-> tickets[i].seat] :
        i \in SessionTickets(tickets, movie_session)}

\* ------------------------------------------------------------ storage layer
\* Mutant of UniqueConstraint: the table has no uniqueness constraint.
NoUniqueConstraint(tkts, t) == TRUE

\* Mutant of UniqueConstraint: the constraint covers (order, row, seat) only.
UniqueWithinOrder(tkts, t) ==
    ~\E i \in DOMAIN tkts :
        /\ tkts[i].order = t.order
        /\ tkts[i].movie_session = t.movie_session
        /\ tkts[i].row = t.row
        /\ tkts[i].seat = t.seat

\* The uniqueness constraint of the Ticket table on (movie_session, row, seat):
\* an insert of a second row with the same triple is refused.
UniqueConstraint(tkts, t) ==
    ~\E i \in DOMAIN tkts :
        /\ tkts[i].movie_session = t.movie_session
        /\ tkts[i].row = t.row
        /\ tkts[i].seat = t.seat

\* ------------------------------------------------------------------- Init
Init ==
    /\ tickets = << >>
    /\ orders = {}
    /\ pc = [p \in Requests |-> "is_valid"]
    /\ errors = [p \in Requests |-> << >>]
    /\ validated_data = [p \in Requests |-> << >>]
    /\ order = [p \in Requests |-> 0]
    /\ next_ticket = [p \in Requests |-> 1]

\* ---------------------------------------------------------------- actions
\* is_valid(), one item of "tickets": the item is resolved and validated
\* against the tickets stored at this moment; its result is recorded and a
\* valid item joins the validated data.
ValidateItem(p) ==
    /\ pc[p] = "is_valid"
    /\ Len(errors[p]) < MaxBatch
    /\ \E data \in TicketData :
        LET e == run_child_validation(data, tickets) IN
        /\ errors' = [errors EXCEPT ![p] = Append(@, e)]
        /\ validated_data' =
               IF e = NoError
               THEN [validated_data EXCEPT ![p] = Append(@, data)]
               ELSE validated_data
    /\ UNCHANGED <<tickets, orders, pc, order, next_ticket>>

\* is_valid(), after the last item: any recorded error rejects the request
\* and leaves no validated data; otherwise save() goes on to create().
\* An empty "tickets" list has no error to record.
EndValidation(p) ==
    /\ pc[p] = "is_valid"
    /\ IF \E i \in DOMAIN errors[p] : errors[p][i] # NoError
       THEN /\ pc' = [pc EXCEPT ![p] = "invalid"]
            /\ validated_data' = [validated_data EXCEPT ![p] = << >>]
       ELSE /\ pc' = [pc EXCEPT ![p] = "create"]
            /\ UNCHANGED validated_data
    /\ UNCHANGED <<tickets, orders, errors, order, next_ticket>>

\* create(): tickets_data = validated_data.pop("tickets");
\*           order = Order.objects.create(**validated_data)
\* With no item to write the loop is skipped and the order is returned.
OrderCreate(p) ==
    /\ pc[p] = "create"
    /\ LET id == Cardinality(orders) + 1 IN
        /\ orders' = orders \cup {id}
        /\ order' = [order EXCEPT ![p] = id]
    /\ pc' = [pc EXCEPT ![p] =
                 IF Len(validated_data[p]) = 0 THEN "done" ELSE "tickets"]
    /\ UNCHANGED <<tickets, errors, validated_data, next_ticket>>

\* create(): Ticket.objects.create(order=order, **ticket_data) for the next
\* item.  A refused insert raises out of create(); nothing written before
\* it is undone.  After the last item create() returns the order.
TicketCreate(p) ==
    /\ pc[p] = "tickets"
    /\ LET ticket_data == validated_data[p][next_ticket[p]]
           t == [order |-> order[p],
                 movie_session |-> ticket_data.movie_session,
                 row |-> ticket_data.row,
                 seat |-> ticket_data.seat]
       IN
        IF UniqueConstraint(tickets, t)
        THEN /\ tickets' = Append(tickets, t)
             /\ next_ticket' = [next_ticket EXCEPT ![p] = @ + 1]
             /\ pc' = [pc EXCEPT ![p] =
                          IF next_ticket[p] = Len(validated_data[p])
                          THEN "done" ELSE "tickets"]
        ELSE /\ pc' = [pc EXCEPT ![p] = "error"]
             /\ UNCHANGED <<tickets, next_ticket>>
    /\ UNCHANGED <<orders, errors, validated_data, order>>

Next ==
    \E p \in Requests :
        \/ ValidateItem(p)
        \/ EndValidation(p)
        \/ OrderCreate(p)
        \/ TicketCreate(p)

Spec == Init /\ [][Next]_vars

\* ----------------------------------------------------- auxiliary notions
\* (row, seat) lies inside the hall of the session.
InHall(movie_session, row, seat) ==
    /\ 1 <= row /\ row <= cinema_hall(movie_session).rows
    /\ 1 <= seat /\ seat <= cinema_hall(movie_session).seats_in_row

\* Ids of the persisted tickets that reference the Order of request p.
OrderTickets(p) ==
    {i \in DOMAIN tickets : order[p] # 0 /\ tickets[i].order = order[p]}

\* Number of items the request has submitted (one result per item).
Requested(p) == Len(errors[p])

Succeeded(p) == pc[p] = "done"
Failed(p) == pc[p] \in {"invalid", "error"}
Finished(p) == Succeeded(p) \/ Failed(p)

\* The request passed validation: every item it submitted was found valid.
PassedValidation(p) ==
    /\ pc[p] \in {"create", "tickets", "done", "error"}
    /\ \A i \in DOMAIN errors[p] : errors[p][i] = NoError

SameSeat(a, b) ==
    /\ a.movie_session = b.movie_session
    /\ a.row = b.row
    /\ a.seat = b.seat

Attrs(movie_session, row, seat) ==
    [row |-> row, seat |-> seat, movie_session |-> movie_session]

\* ---------------------------------------------------------------- claims

\* C1: in every reachable state no two persisted tickets of the same movie
\* session have the same (row, seat), whatever batches were submitted.
C1_UniqueSeatPerSession ==
    \A i, j \in DOMAIN tickets :
        i # j => ~SameSeat(tickets[i], tickets[j])

\* C1 witness: a request whose batch names one seat twice passed validation,
\* wrote the first of the two tickets and had the second insert refused.
C1_Witness ==
    \E p \in Requests :
        /\ pc[p] = "error"
        /\ \E k \in 1..(next_ticket[p] - 1) :
            /\ validated_data[p][k] = validated_data[p][next_ticket[p]]
            /\ \E i \in OrderTickets(p) : SameSeat(tickets[i], validated_data[p][k])

\* C2: of two different requests that both ask for the same seat of the same
\* session, at most one has a persisted ticket for that seat, however their
\* validation and write steps interleave.
C2_AtMostOneRequestHoldsSeat ==
    \A p, q \in Requests :
        p # q =>
            ~\E i \in OrderTickets(p), j \in OrderTickets(q) :
                SameSeat(tickets[i], tickets[j])

\* C2 witness: two requests both passed validation for the same seat (neither
\* saw the other's ticket); one holds the ticket, the other's insert of it
\* was refused.
C2_Witness ==
    \E p, q \in Requests :
        /\ p # q
        /\ PassedValidation(p)
        /\ PassedValidation(q)
        /\ pc[q] = "error"
        /\ \E i \in OrderTickets(p) :
            SameSeat(tickets[i], validated_data[q][next_ticket[q]])

\* C3: the Order and its Tickets are written atomically: no state shows a
\* persisted Order without every ticket its request asked for, neither while
\* the request runs nor after it failed.
C3_OrderNeverPartial ==
    \A p \in Requests :
        order[p] \in orders =>
            Cardinality(OrderTickets(p)) = Len(validated_data[p])

\* C4: a finished createOrder is all-or-nothing: after success its one Order
\* and exactly as many Tickets as it requested are persisted, after failure
\* neither an Order nor a Ticket of it is persisted.
C4_AllOrNothing ==
    \A p \in Requests :
        /\ Succeeded(p) =>
            /\ order[p] \in orders
            /\ Cardinality(OrderTickets(p)) = Requested(p)
        /\ Failed(p) =>
            /\ order[p] \notin orders
            /\ OrderTickets(p) = {}

\* C5: a finished request that submitted an empty ticket list was rejected
\* and persisted nothing, so every Order of a finished request owns a Ticket.
C5_EmptyOrderRejected ==
    \A p \in Requests :
        /\ (Finished(p) /\ Requested(p) = 0) =>
            (Failed(p) /\ order[p] \notin orders)
        /\ (Finished(p) /\ order[p] \in orders) => OrderTickets(p) # {}

\* C6: for every row outside [1, hall.rows] validate answers the "row" error,
\* whatever the seat is and whatever tickets are stored.
C6_RowErrorFirst ==
    \A s \in MovieSessions, r \in Coords, c \in Coords :
        ~(1 <= r /\ r <= cinema_hall(s).rows) =>
            validate(Attrs(s, r, c), tickets) = RowError

\* C6 witness: with tickets stored, a request got the "row" error for an item.
C6_Witness ==
    /\ Len(tickets) > 0
    /\ \E p \in Requests : \E k \in DOMAIN errors[p] : errors[p][k] = RowError

\* C7 as stated: for every seat outside [1, hall.seats_in_row] validate
\* answers the "seat" error, for every row value.
C7_SeatErrorAnyRow ==
    \A s \in MovieSessions, r \in Coords, c \in Coords :
        ~(1 <= c /\ c <= cinema_hall(s).seats_in_row) =>
            validate(Attrs(s, r, c), tickets) = SeatError

\* C7 amended: for every seat outside [1, hall.seats_in_row] validate answers
\* the "seat" error when the row lies inside [1, hall.rows].
C7_SeatErrorRowInRange ==
    \A s \in MovieSessions, r \in Coords, c \in Coords :
        (/\ 1 <= r /\ r <= cinema_hall(s).rows
         /\ ~(1 <= c /\ c <= cinema_hall(s).seats_in_row)) =>
            validate(Attrs(s, r, c), tickets) = SeatError

\* C7 witness: with tickets stored, a request got the "seat" error for an item.
C7_Witness ==
    /\ Len(tickets) > 0
    /\ \E p \in Requests : \E k \in DOMAIN errors[p] : errors[p][k] = SeatError

\* C8: for every session and every (r, s) inside its hall, validate answers
\* "seat taken" exactly when a stored ticket of that session sits at (r, s),
\* and succeeds otherwise (tickets of other sessions do not count); and a
\* validation step changes neither the Ticket nor the Order table.
C8_SeatTakenIffTicketExists ==
    /\ [](\A s \in MovieSessions, r \in Coords, c \in Coords :
            InHall(s, r, c) =>
                validate(Attrs(s, r, c), tickets) =
                    IF \E i \in DOMAIN tickets :
                           /\ tickets[i].movie_session = s
                           /\ tickets[i].row = r
                           /\ tickets[i].seat = c
                    THEN SeatTaken
                    ELSE NoError)
    /\ [][(\E p \in Requests : Len(errors'[p]) > Len(errors[p])) =>
              (tickets' = tickets /\ orders' = orders)]_vars

\* C8 witness: a request got "seat taken" for an item, and the same (row,
\* seat) is ticketed in two different sessions: the ticket of one session did
\* not block the other.
C8_Witness ==
    /\ \E p \in Requests : \E k \in DOMAIN errors[p] : errors[p][k] = SeatTaken
    /\ \E i, j \in DOMAIN tickets :
        /\ tickets[i].movie_session # tickets[j].movie_session
        /\ tickets[i].row = tickets[j].row
        /\ tickets[i].seat = tickets[j].seat

\* Number of tickets for the session asked for by the requests that succeeded.
CreatedFor(movie_session) ==
    Cardinality({<<p, k>> \in Requests \X (1..MaxBatch) :
        /\ Succeeded(p)
        /\ k <= Len(validated_data[p])
        /\ validated_data[p][k].movie_session = movie_session})

\* C9: tickets_available of a session is rows * seats_in_row minus the number
\* of its persisted tickets; while no request is in the middle of its writes
\* it is the capacity minus the k tickets the successful requests created,
\* failed requests having changed nothing.
C9_TicketsAvailable ==
    \A s \in MovieSessions :
        /\ get_tickets_available(s) =
               cinema_hall(s).rows * cinema_hall(s).seats_in_row
                   - Cardinality({i \in DOMAIN tickets : tickets[i].movie_session = s})
        /\ (\A p \in Requests : pc[p] # "tickets") =>
               get_tickets_available(s) = capacity(cinema_hall(s)) - CreatedFor(s)

\* C10: every persisted ticket lies inside the hall of its session, and
\* tickets_available of every session stays within [0, capacity].
C10_InBoundsNeverOversold ==
    /\ \A i \in DOMAIN tickets :
        InHall(tickets[i].movie_session, tickets[i].row, tickets[i].seat)
    /\ \A s \in MovieSessions :
        /\ 0 <= get_tickets_available(s)
        /\ get_tickets_available(s) <= capacity(cinema_hall(s))

\* C10 witness: a session is sold out and a further request for it was
\* turned away.
C10_Witness ==
    /\ \E s \in MovieSessions : get_tickets_available(s) = 0
    /\ \E p \in Requests : \E k \in DOMAIN errors[p] : errors[p][k] = SeatTaken
====
